---- MODULE Spec2Model ----
(***************************************************************************)
(* A model of DomManager (src/src/dom/DomManager.ts): the lookup           *)
(* primitives, the comment-container discovery protocol                    *)
(* (withCommentContainer) and the mutation utilities (replaceText,         *)
(* clearChildElements).                                                    *)
(***************************************************************************)
EXTENDS Integers, Sequences, FiniteSets, TLC

\* ------------------------------------------------------------------ bounds
MaxTimeout == 3        \* largest initial timeout of a session
MaxNonPositive == 1    \* initial timeouts go down to -MaxNonPositive
MaxDelay == 2          \* largest retry interval
MaxAttempts == 5       \* handler invocations per session explored
MaxNodes == 2          \* elements in a document of the lookup model
MaxChildren == 3       \* child nodes of the element of the mutation model
MaxOps == 3            \* mutation-utility calls explored

\* ------------------------------------------------------------- vocabulary
\* JavaScript null.
Null == "null"

\* Config.dom.selector.* and Config.dom.id.* are opaque strings of an
\* external configuration; the model keeps them symbolic and distinct.
ytCommentContainer == "sel:ytCommentContainer"
ytCommentTitle == "sel:ytCommentTitle"
ytCommentThread == "sel:ytCommentThread"
ytCommentContents == "sel:ytCommentContents"
ytCommentSortItems == "sel:ytCommentSortItems"
yayFilterContainer == "yay-filter-container"
yayFilterStatus == "yay-filter-status"
yayFilterInfo == "yay-filter-info"

Selectors ==
    {ytCommentContainer, ytCommentTitle, ytCommentThread, ytCommentContents,
     ytCommentSortItems}
Ids == {yayFilterContainer, yayFilterStatus, yayFilterInfo}

\* Handles of DOM elements (object identities).
NodeNames == <<"n1", "n2", "n3", "n4">>
Callbacks == {"cb1", "cb2"}
Texts == {"a", "b"}

VARIABLES
    doc,        \* the live document: its elements in document order
    timers,     \* pending window.setTimeout closures
    session,    \* per callback: the arguments of the call that started it
    lookups,    \* per callback: results of findCommentContainer, in order
    calls,      \* per callback: the arguments it was invoked with, in order
    observed,   \* per callback: the document at each handler invocation
    seen,       \* the comment container was in the document at some time
    ret,        \* outcome of the last lookup call
    elem,       \* the element the mutation utilities work on
    hist,       \* snapshots of elem: initial, then after each call
    ops         \* the mutation-utility calls made, in order

vars == <<doc, timers, session, lookups, calls, observed, seen, ret, elem, hist, ops>>
discoveryVars == <<timers, session, lookups, calls, observed, seen>>
mutationVars == <<elem, hist, ops>>

\* -------------------------------------------------------------- DOM tree
\* An element of the document: handle, id attribute, the selectors of the
\* configuration it matches, and the position of its parent (0: document).
Element(n, id, sel, parent) == [node |-> n, id |-> id, sel |-> sel, parent |-> parent]

RECURSIVE IsDescendant(_, _, _)
\* Element at position i is a proper descendant of the element at position a.
IsDescendant(d, i, a) ==
    IF d[i].parent = 0 THEN FALSE
    ELSE d[i].parent = a \/ IsDescendant(d, d[i].parent, a)

\* Position of the element with handle n (0 when not in the document).
IndexOf(d, n) ==
    IF \E i \in 1..Len(d) : d[i].node = n
    THEN CHOOSE i \in 1..Len(d) : d[i].node = n
    ELSE 0

\* Element.matches(query) for the queries the module issues: a configured
\* selector, or "#id".
Matches(e, query) == query \in e.sel \/ (e.id # "" /\ query = "#" \o e.id)

\* Positions of the elements matching query under the scope (Null: document).
MatchingIn(d, ancestor, query) ==
    {i \in 1..Len(d) :
        /\ Matches(d[i], query)
        /\ ancestor = Null \/ IsDescendant(d, i, IndexOf(d, ancestor))}

Min(S) == CHOOSE x \in S : \A y \in S : x <= y

\* (document | ancestor).querySelector(query): first match in document order.
QuerySelector(d, ancestor, query) ==
    LET m == MatchingIn(d, ancestor, query)
    IN IF m = {} THEN Null ELSE d[Min(m)].node

RECURSIVE SortedNodes(_, _)
SortedNodes(d, m) ==
    IF m = {} THEN <<>> ELSE <<d[Min(m)].node>> \o SortedNodes(d, m \ {Min(m)})

\* document.querySelectorAll(query): every match, in document order.
QuerySelectorAll(d, query) == SortedNodes(d, MatchingIn(d, Null, query))

\* document.getElementById(id): first element with that id, or null.
DocumentGetElementById(d, id) ==
    LET m == {i \in 1..Len(d) : d[i].id = id}
    IN IF m = {} THEN Null ELSE d[Min(m)].node

\* ------------------------------------------------------ discovery protocol
FindCommentContainer(d) == QuerySelector(d, Null, ytCommentContainer)

\* A timer kept in one shared slot: scheduling drops the timers of others.
SetTimeoutSharedSlot(ts, closure) == {closure}

\* window.setTimeout(closure, delay): one more pending timer.
SetTimeout(ts, closure) == ts \cup {closure}

\* withCommentContainer with the retry outside the else branch: it polls on
\* after it found the container.
WithCommentContainerRetryAlways(callback, timeout, delay, d) ==
    LET expired == IF timeout <= 0 THEN <<Null>> ELSE <<>>
        found == QuerySelector(d, Null, ytCommentContainer)
    IN [invoked |-> IF found = Null THEN expired ELSE expired \o <<found>>,
        lookups |-> <<found>>,
        retry |-> {[callback |-> callback, timeout |-> timeout, delay |-> delay]}]

\* One invocation of withCommentContainer(callback, timeout, delay) against
\* document d: the callback arguments it delivers (in order), the lookups it
\* makes and the retry closures it schedules.  The timeout branch does not
\* return, so the lookup below it always runs.
WithCommentContainer(callback, timeout, delay, d) ==
    LET expired == IF timeout <= 0 THEN <<Null>> ELSE <<>>
        found == FindCommentContainer(d)
    IN IF found = Null
       THEN [invoked |-> expired,
             lookups |-> <<found>>,
             retry |-> {[callback |-> callback, timeout |-> timeout, delay |-> delay]}]
       ELSE [invoked |-> expired \o <<found>>,
             lookups |-> <<found>>,
             retry |-> {}]

\* The effect of one handler invocation on the program state.
Invoke(callback, timeout, delay, fired) ==
    LET r == WithCommentContainer(callback, timeout, delay, doc)
        rest == timers \ fired
    IN /\ calls' = [calls EXCEPT ![callback] = @ \o r.invoked]
       /\ lookups' = [lookups EXCEPT ![callback] = @ \o r.lookups]
       /\ observed' = [observed EXCEPT ![callback] = Append(@, doc)]
       /\ timers' = IF r.retry = {} THEN rest
                    ELSE SetTimeout(rest, CHOOSE c \in r.retry : TRUE)

NoSession == [started |-> FALSE, timeout |-> 0, delay |-> 0]

\* A caller starts a discovery session with its own callback.
Start(cb, timeout, delay) ==
    /\ ~session[cb].started
    /\ session' = [session EXCEPT ![cb] =
                      [started |-> TRUE, timeout |-> timeout, delay |-> delay]]
    /\ Invoke(cb, timeout, delay, {})
    /\ UNCHANGED <<doc, seen, ret, mutationVars>>

\* A pending retry timer fires: () => withCommentContainer(callback,
\* timeout - delay, delay).
Tick(tm) ==
    /\ tm \in timers
    /\ Len(observed[tm.callback]) < MaxAttempts
    /\ Invoke(tm.callback, tm.timeout - tm.delay, tm.delay, {tm})
    /\ UNCHANGED <<session, doc, seen, ret, mutationVars>>

\* The host page renders the comment container.
ContainerAppears(n) ==
    /\ FindCommentContainer(doc) = Null
    /\ doc' = Append(doc, Element(n, "", {ytCommentContainer}, 0))
    /\ seen' = TRUE
    /\ UNCHANGED <<timers, session, lookups, calls, observed, ret, mutationVars>>

\* The host page removes the comment container.
ContainerRemoved ==
    /\ FindCommentContainer(doc) # Null
    /\ doc' = SelectSeq(doc, LAMBDA e : e.node # FindCommentContainer(doc))
    /\ UNCHANGED <<timers, session, lookups, calls, observed, seen, ret, mutationVars>>

NoRet == [fn |-> "none", family |-> "none", query |-> "", scope |-> Null,
          kind |-> "none", value |-> Null, list |-> <<>>, message |-> ""]
NoElem == [node |-> "n1", parentNode |-> "n0", childNodes |-> <<>>]

Init ==
    /\ doc = <<>>
    /\ timers = {}
    /\ session = [cb \in Callbacks |-> NoSession]
    /\ lookups = [cb \in Callbacks |-> <<>>]
    /\ calls = [cb \in Callbacks |-> <<>>]
    /\ observed = [cb \in Callbacks |-> <<>>]
    /\ seen = FALSE
    /\ ret = NoRet
    /\ elem = NoElem
    /\ hist = <<NoElem>>
    /\ ops = <<>>

Next ==
    \/ \E cb \in Callbacks, t \in (0 - MaxNonPositive)..MaxTimeout, d \in 1..MaxDelay :
          Start(cb, t, d)
    \/ \E tm \in timers : Tick(tm)
    \/ \E n \in {NodeNames[1], NodeNames[2]} : ContainerAppears(n)
    \/ ContainerRemoved

Spec == Init /\ [][Next]_vars

\* ------------------------------------------------- discovery: properties
Started(cb) == session[cb].started
Pending(cb) == \E tm \in timers : tm.callback = cb

\* ceil(t / d) for t > 0, d > 0.
Ceil(t, d) == (t + d - 1) \div d

\* C1: every started session (delay > 0, any timeout) invokes its callback
\* exactly once: never twice, and once no retry timer is left, not zero times.
C1_CallbackExactlyOnce ==
    \A cb \in Callbacks :
        Started(cb) =>
            /\ Len(calls[cb]) <= 1
            /\ ~Pending(cb) => Len(calls[cb]) = 1

\* C2: a session started with timeout <= 0 invokes the callback once with
\* null, makes no lookup and schedules no retry timer.
C2_NonPositiveTimeoutNoLookup ==
    \A cb \in Callbacks :
        (Started(cb) /\ session[cb].timeout <= 0) =>
            /\ calls[cb] = <<Null>>
            /\ lookups[cb] = <<>>
            /\ ~Pending(cb)

\* C3: with timeout t > 0, delay d > 0 and the container absent throughout,
\* the callback is invoked at most once, with null, and by then the session
\* has made exactly ceil(t / d) lookups; it never makes more.
C3_AbsentExhaustsAfterCeil ==
    \A cb \in Callbacks :
        (Started(cb) /\ session[cb].timeout > 0 /\ ~seen) =>
            /\ Len(lookups[cb]) <= Ceil(session[cb].timeout, session[cb].delay)
            /\ calls[cb] # <<>> =>
                  /\ calls[cb] = <<Null>>
                  /\ Len(lookups[cb]) = Ceil(session[cb].timeout, session[cb].delay)
                  /\ ~Pending(cb)

\* The first lookup of the session that found the container (0 when none).
FirstFound(cb) ==
    IF \E k \in 1..Len(lookups[cb]) : lookups[cb][k] # Null
    THEN Min({k \in 1..Len(lookups[cb]) : lookups[cb][k] # Null})
    ELSE 0

\* C4: with timeout t > 0, if the container is absent at lookups 1..k-1 and
\* found at lookup k <= ceil(t / d), the callback is invoked exactly once,
\* with the element of lookup k; lookup k is the session's last one and no
\* retry timer is pending.
C4_FoundWithinBudget ==
    \A cb \in Callbacks :
        LET k == FirstFound(cb)
        IN (/\ Started(cb)
            /\ session[cb].timeout > 0
            /\ k >= 1
            /\ k <= Ceil(session[cb].timeout, session[cb].delay)) =>
               /\ calls[cb] = <<lookups[cb][k]>>
               /\ Len(lookups[cb]) = k
               /\ Len(observed[cb]) = k
               /\ ~Pending(cb)

\* C4 witness: a session with a positive timeout found the container at its
\* second or a later lookup, within the budget, and delivered it.
C4_Witness ==
    \E cb \in Callbacks :
        /\ Started(cb)
        /\ session[cb].timeout > 0
        /\ FirstFound(cb) >= 2
        /\ FirstFound(cb) <= Ceil(session[cb].timeout, session[cb].delay)
        /\ calls[cb] # <<>>

\* The state of a session run alone: callback arguments, lookups, timers.
AloneStep(callback, timeout, delay, d, st) ==
    LET r == WithCommentContainer(callback, timeout, delay, d)
    IN [calls |-> st.calls \o r.invoked,
        lookups |-> st.lookups \o r.lookups,
        timers |-> r.retry]

RECURSIVE AloneFrom(_, _)
AloneFrom(st, ds) ==
    IF ds = <<>> \/ st.timers = {} THEN st
    ELSE LET tm == CHOOSE x \in st.timers : TRUE
         IN AloneFrom(AloneStep(tm.callback, tm.timeout - tm.delay, tm.delay,
                                Head(ds), st),
                      Tail(ds))

\* The session withCommentContainer(cb, timeout, delay) run with no other
\* session, its handler invocations seeing the documents ds in turn.
Alone(cb, timeout, delay, ds) ==
    LET none == [calls |-> <<>>, lookups |-> <<>>, timers |-> {}]
    IN IF ds = <<>> THEN none
       ELSE AloneFrom(AloneStep(cb, timeout, delay, Head(ds), none), Tail(ds))

\* C9: sessions are independent: under any interleaving, each session has
\* made the lookups, delivered the callback invocations (count and
\* arguments, to its own callback) and holds the retry timer it would have
\* when run alone against the documents it saw; a session never started
\* has no invocation and no timer.
C9_SessionsIndependent ==
    \A cb \in Callbacks :
        LET a == Alone(cb, session[cb].timeout, session[cb].delay, observed[cb])
        IN /\ calls[cb] = a.calls
           /\ lookups[cb] = a.lookups
           /\ {tm \in timers : tm.callback = cb} = a.timers
           /\ Len(lookups[cb]) = Len(observed[cb])
           /\ ~Started(cb) => observed[cb] = <<>>

\* C9 witness: both sessions ran interleaved for at least two handler
\* invocations each, with different parameters, and one of them still holds
\* its retry timer while the other has delivered an element.
C9_Witness ==
    \E a, b \in Callbacks :
        /\ a # b
        /\ Len(observed[a]) >= 2 /\ Len(observed[b]) >= 2
        /\ session[a].timeout # session[b].timeout
        /\ session[a].delay # session[b].delay
        /\ Pending(a)
        /\ calls[b] # <<>> /\ calls[b][Len(calls[b])] # Null

\* C10: a session that has delivered its callback has reached a terminal
\* state (Succeeded or Exhausted): no retry timer of it is pending.
C10_TerminalAfterCallback ==
    \A cb \in Callbacks : calls[cb] # <<>> => ~Pending(cb)

\* ------------------------------------------------------- lookup primitive
Return(v) == [kind |-> "return", value |-> v, list |-> <<>>, message |-> ""]
ReturnList(l) == [kind |-> "return", value |-> Null, list |-> l, message |-> ""]
Throw(msg) == [kind |-> "throw", value |-> Null, list |-> <<>>, message |-> msg]

\* getElementByQuery that hands the missing element on as null.
GetElementByQueryNoThrow(d, query, ancestor) ==
    Return(QuerySelector(d, ancestor, query))

GetElementByQuery(d, query, ancestor) ==
    LET e == QuerySelector(d, ancestor, query)
    IN IF e = Null THEN Throw("Element not found: " \o query) ELSE Return(e)

GetElementById(d, id) == GetElementByQuery(d, "#" \o id, Null)
FindCommentHeader(d) == QuerySelector(d, Null, ytCommentTitle)
FindYayFilterContainer(d) == DocumentGetElementById(d, yayFilterContainer)
GetYayFilterContainer(d) == GetElementById(d, yayFilterContainer)
FindYayFilterStatus(d) == DocumentGetElementById(d, yayFilterStatus)
FindYayFilterInfo(d) == DocumentGetElementById(d, yayFilterInfo)
FindCommentThreads(d) == QuerySelectorAll(d, ytCommentThread)
GetCommentThreadContainer(d) == GetElementByQuery(d, ytCommentContents, Null)
FindSortItems(d) == QuerySelectorAll(d, ytCommentSortItems)

\* A call of a lookup: what was asked (function, family, query, scope) and
\* its outcome; the lookups only read the document.
Lookup(fn, family, query, scope, outcome) ==
    /\ ret' = [fn |-> fn, family |-> family, query |-> query, scope |-> scope,
               kind |-> outcome.kind, value |-> outcome.value,
               list |-> outcome.list, message |-> outcome.message]
    /\ UNCHANGED <<doc, discoveryVars, mutationVars>>

Queries == Selectors \cup {"#" \o id : id \in Ids}
Scopes(d) == {Null} \cup {d[i].node : i \in 1..Len(d)}

CallGetElementByQuery(query, ancestor) ==
    Lookup("getElementByQuery", "get", query, ancestor,
           GetElementByQuery(doc, query, ancestor))
CallGetElementById(id) ==
    Lookup("getElementById", "get", "#" \o id, Null, GetElementById(doc, id))
CallFindCommentContainer ==
    Lookup("findCommentContainer", "find", ytCommentContainer, Null,
           Return(FindCommentContainer(doc)))
CallFindCommentHeader ==
    Lookup("findCommentHeader", "find", ytCommentTitle, Null,
           Return(FindCommentHeader(doc)))
CallFindYayFilterContainer ==
    Lookup("findYayFilterContainer", "find", "#" \o yayFilterContainer, Null,
           Return(FindYayFilterContainer(doc)))
CallGetYayFilterContainer ==
    Lookup("getYayFilterContainer", "get", "#" \o yayFilterContainer, Null,
           GetYayFilterContainer(doc))
CallFindYayFilterStatus ==
    Lookup("findYayFilterStatus", "find", "#" \o yayFilterStatus, Null,
           Return(FindYayFilterStatus(doc)))
CallFindYayFilterInfo ==
    Lookup("findYayFilterInfo", "find", "#" \o yayFilterInfo, Null,
           Return(FindYayFilterInfo(doc)))
CallFindCommentThreads ==
    Lookup("findCommentThreads", "find", ytCommentThread, Null,
           ReturnList(FindCommentThreads(doc)))
CallGetCommentThreadContainer ==
    Lookup("getCommentThreadContainer", "get", ytCommentContents, Null,
           GetCommentThreadContainer(doc))
CallFindSortItems ==
    Lookup("findSortItems", "find", ytCommentSortItems, Null,
           ReturnList(FindSortItems(doc)))

\* What an element of a bounded document may be: plain, carrying one of the
\* configured ids, or matching one of the configured selectors.
ElementKinds ==
    {[id |-> "", sel |-> {}]}
        \cup {[id |-> i, sel |-> {}] : i \in Ids}
        \cup {[id |-> "", sel |-> {q}] : q \in Selectors}

RECURSIVE AncestorsOrSelf(_, _)
AncestorsOrSelf(parents, i) ==
    IF i = 0 THEN {0} ELSE {i} \cup AncestorsOrSelf(parents, parents[i])

\* parents lists the elements of a tree in document (pre-)order.
PreOrder(parents) ==
    \A i \in 1..Len(parents) :
        IF i = 1 THEN parents[i] = 0
        ELSE parents[i] \in AncestorsOrSelf(parents, i - 1)

Documents ==
    UNION {
        {[i \in 1..n |-> Element(NodeNames[i], kinds[i].id, kinds[i].sel, parents[i])] :
            kinds \in [1..n -> ElementKinds],
            parents \in {p \in [1..n -> 0..n] : PreOrder(p)}}
        : n \in 0..MaxNodes}

InitLookup ==
    /\ doc \in Documents
    /\ timers = {}
    /\ session = [cb \in Callbacks |-> NoSession]
    /\ lookups = [cb \in Callbacks |-> <<>>]
    /\ calls = [cb \in Callbacks |-> <<>>]
    /\ observed = [cb \in Callbacks |-> <<>>]
    /\ seen = FALSE
    /\ ret = NoRet
    /\ elem = NoElem
    /\ hist = <<NoElem>>
    /\ ops = <<>>

NextLookup ==
    \/ \E q \in Queries, a \in Scopes(doc) : CallGetElementByQuery(q, a)
    \/ \E id \in Ids : CallGetElementById(id)
    \/ CallFindCommentContainer
    \/ CallFindCommentHeader
    \/ CallFindYayFilterContainer
    \/ CallGetYayFilterContainer
    \/ CallFindYayFilterStatus
    \/ CallFindYayFilterInfo
    \/ CallFindCommentThreads
    \/ CallGetCommentThreadContainer
    \/ CallFindSortItems

SpecLookup == InitLookup /\ [][NextLookup]_vars

\* C5: when no element matches the query in the scope, a get-family lookup
\* throws an error carrying the query string and returns nothing, and a
\* find-family lookup returns null or an empty collection and does not throw.
C5_GetThrowsFindReturnsAbsence ==
    (ret.fn # "none" /\ MatchingIn(doc, ret.scope, ret.query) = {}) =>
        IF ret.family = "get"
        THEN /\ ret.kind = "throw"
             /\ ret.message = "Element not found: " \o ret.query
        ELSE /\ ret.kind = "return"
             /\ ret.value = Null
             /\ ret.list = <<>>

\* C5 witness: a scoped get-family lookup failed on a query that an element
\* outside the scope matches.
C5_Witness ==
    /\ ret.fn = "getElementByQuery"
    /\ ret.scope # Null
    /\ MatchingIn(doc, ret.scope, ret.query) = {}
    /\ MatchingIn(doc, Null, ret.query) # {}
    /\ ret.kind = "throw"

\* C5 witness of the find family: a find-family lookup reported absence.
C5_WitnessFind ==
    /\ ret.family = "find"
    /\ MatchingIn(doc, ret.scope, ret.query) = {}
    /\ ret.kind = "return"

\* ----------------------------------------------------- mutation utilities
\* document.createTextNode(text).
TextNode(text) == [nodeType |-> "text", nodeValue |-> text, textContent |-> text]
\* An element child (an icon, a span): its nodeValue is null.
ElementNode(content) == [nodeType |-> "element", nodeValue |-> Null, textContent |-> content]

\* node.nodeValue = value: sets the data of a text node; on an element node
\* nodeValue is null and assigning to it has no effect.
SetNodeValue(n, value) ==
    IF n.nodeType = "text"
    THEN [n EXCEPT !.nodeValue = value, !.textContent = value]
    ELSE n

\* replaceText without the branch for an element that has no child yet.
ReplaceTextNoAppend(e, text) ==
    IF Len(e.childNodes) = 0 THEN e
    ELSE [e EXCEPT !.childNodes[1] = SetNodeValue(@, text)]

ReplaceText(e, text) ==
    IF Len(e.childNodes) = 0
    THEN [e EXCEPT !.childNodes = Append(@, TextNode(text))]
    ELSE [e EXCEPT !.childNodes[1] = SetNodeValue(@, text)]

\* element.removeChild(element.lastChild).
RemoveLastChild(e) ==
    [e EXCEPT !.childNodes = SubSeq(@, 1, Len(@) - 1)]

\* clearChildElements with "if" in place of "while": one child is removed.
ClearChildElementsOnce(e) ==
    IF Len(e.childNodes) = 0 THEN e ELSE RemoveLastChild(e)

RECURSIVE ClearChildElements(_)
\* while (element.lastChild) element.removeChild(element.lastChild)
ClearChildElements(e) ==
    IF Len(e.childNodes) = 0 THEN e ELSE ClearChildElements(RemoveLastChild(e))

Mutate(op, text, after) ==
    /\ Len(ops) < MaxOps
    /\ elem' = after
    /\ hist' = Append(hist, after)
    /\ ops' = Append(ops, [op |-> op, text |-> text])
    /\ UNCHANGED <<doc, discoveryVars, ret>>

CallReplaceText(text) == Mutate("replaceText", text, ReplaceText(elem, text))
CallClearChildElements == Mutate("clearChildElements", "", ClearChildElements(elem))

ChildKinds == {TextNode("a"), TextNode("x"), ElementNode("x")}

\* The elements the utilities are called on: any mix of text and element
\* children, in any order, up to MaxChildren of them.
Elements ==
    UNION {{[node |-> "n1", parentNode |-> "n0", childNodes |-> c] :
                c \in [1..n -> ChildKinds]} : n \in 0..MaxChildren}

InitMutation ==
    /\ doc = <<>>
    /\ timers = {}
    /\ session = [cb \in Callbacks |-> NoSession]
    /\ lookups = [cb \in Callbacks |-> <<>>]
    /\ calls = [cb \in Callbacks |-> <<>>]
    /\ observed = [cb \in Callbacks |-> <<>>]
    /\ seen = FALSE
    /\ ret = NoRet
    /\ elem \in Elements
    /\ hist = <<elem>>
    /\ ops = <<>>

NextMutation ==
    \/ \E text \in Texts : CallReplaceText(text)
    \/ CallClearChildElements

SpecMutation == InitMutation /\ [][NextMutation]_vars

NonTextCount(e) ==
    Cardinality({i \in 1..Len(e.childNodes) : e.childNodes[i].nodeType # "text"})

\* C6: replaceText(element, a) then replaceText(element, b) on an element
\* with at least one child (text or element, in any order) keeps the number
\* of non-text children and the number of children, and leaves the text of
\* the first child equal to b.
C6_ReplaceTextTwice ==
    \A i \in 1..(Len(ops) - 1) :
        (/\ ops[i].op = "replaceText"
         /\ ops[i + 1].op = "replaceText"
         /\ Len(hist[i].childNodes) >= 1) =>
            /\ NonTextCount(hist[i + 2]) = NonTextCount(hist[i])
            /\ Len(hist[i + 2].childNodes) = Len(hist[i].childNodes)
            /\ hist[i + 2].childNodes[1].textContent = ops[i + 1].text

\* C7: replaceText(element, text) on an element with no child leaves it
\* with exactly one child, a text node whose value is text.
C7_ReplaceTextOnEmpty ==
    \A i \in 1..Len(ops) :
        (ops[i].op = "replaceText" /\ Len(hist[i].childNodes) = 0) =>
            /\ Len(hist[i + 1].childNodes) = 1
            /\ hist[i + 1].childNodes[1].nodeType = "text"
            /\ hist[i + 1].childNodes[1].nodeValue = ops[i].text

\* C7 witness: replaceText was called on an element that had no child.
C7_Witness ==
    \E i \in 1..Len(ops) :
        /\ ops[i].op = "replaceText"
        /\ Len(hist[i].childNodes) = 0
        /\ Len(hist[i + 1].childNodes) = 1

\* C8: clearChildElements leaves the element with no child, the element
\* itself where and what it was; on an element with no child it changes
\* nothing, so a second call in a row leaves the state of the first.
C8_ClearChildElements ==
    \A i \in 1..Len(ops) :
        ops[i].op = "clearChildElements" =>
            /\ Len(hist[i + 1].childNodes) = 0
            /\ hist[i + 1].node = hist[i].node
            /\ hist[i + 1].parentNode = hist[i].parentNode
            /\ Len(hist[i].childNodes) = 0 => hist[i + 1] = hist[i]
            /\ (i > 1 /\ ops[i - 1].op = "clearChildElements") =>
                  hist[i + 1] = hist[i]

\* C8 witness: an element with several children was cleared, then cleared
\* again.
C8_Witness ==
    \E i \in 1..(Len(ops) - 1) :
        /\ ops[i].op = "clearChildElements"
        /\ ops[i + 1].op = "clearChildElements"
        /\ Len(hist[i].childNodes) >= 2
        /\ Len(hist[i + 2].childNodes) = 0

====
